---- MODULE Spec2Model ----
(***************************************************************************)
(* Model of streamlit_app.py: one Streamlit script that fetches the        *)
(* (Query, Objective) rows of a Neo4j store, reshapes them into nested     *)
(* Query records, ranks them by embedding similarity to the typed text,    *)
(* and renders the top matches.  Streamlit executes the script top to      *)
(* bottom once per user interaction; every execution is one "run".         *)
(*                                                                         *)
(* Similarity scores are kept in hundredths (0.3 is 30); embedding         *)
(* vectors have two components kept in tenths, so that a dot product of    *)
(* two vectors is directly a score in hundredths.                          *)
(***************************************************************************)
EXTENDS Integers, Sequences, FiniteSets, TLC

VARIABLES
    store,            \* rows the fixed Cypher query returns, in result order
    input_text,       \* value of st.text_input in this run
    driver,           \* "open" | "closed": state of the module-level neo4j driver
    queries,          \* list returned by the fetch (dicts mutated in place by the ranker)
    similar_queries,  \* the ranked list
    shown,            \* messages emitted to the page in this run, in order
    sections,         \* expanders emitted to the page in this run, in order
    idx,              \* 1-based position of the render loop in similar_queries[:5]
    calls,            \* trace of the collaborator calls of this run
    pc,               \* position of the script
    runs              \* number of script executions so far

vars == <<store, input_text, driver, queries, similar_queries, shown,
          sections, idx, calls, pc, runs>>

----------------------------------------------------------------------------
(* Bounds of the model *)

MaxRows == 3

MaxQueries == 6

MaxRuns == 2

(* Program constants *)

Threshold == 30

TopN == 5

----------------------------------------------------------------------------
(* Values *)

NoneValue == "<None>"

IsStr(v) == v # NoneValue

Min(a, b) == IF a < b THEN a ELSE b

SeqsUpTo(S, n) == UNION {[1..k -> S] : k \in 0..n}

QueryIds == {1, 2}

Texts == {"A", "B"}

WideTexts == {"B", "C", "D"}

Inputs == {"", "sales"}

Objectives ==
    { [id |-> 1, name |-> "Obj1", traffic_sources |-> <<>>, kpis |-> <<>>],
      [id |-> 2, name |-> "Obj2", traffic_sources |-> <<"Ads", "SEO">>,
       kpis |-> <<"CTR">>],
      [id |-> 3, name |-> NoneValue, traffic_sources |-> <<"Ads">>,
       kpis |-> <<>>] }

Row(qid, text, o) ==
    [query_id |-> qid, query_text |-> text,
     objective_id |-> o.id, objective_name |-> o.name,
     traffic_sources |-> o.traffic_sources, kpis |-> o.kpis]

Rows == {Row(i, t, o) : i \in QueryIds, t \in Texts, o \in Objectives}

PlainObjective == [id |-> 1, name |-> "Obj1", traffic_sources |-> <<>>, kpis |-> <<>>]

(* Stores with few rows: any sequence of rows, ids and objectives repeating. *)
SmallStores == SeqsUpTo(Rows, MaxRows)

(* Stores with many queries: one row per query, more queries than are shown. *)
WideStores ==
    UNION { { [i \in 1..k |-> Row(i, f[i], PlainObjective)] : f \in [1..k -> WideTexts] }
            : k \in (MaxRows + 1)..MaxQueries }

Stores == SmallStores \cup WideStores

----------------------------------------------------------------------------
(* fetch_queries_with_objectives_and_details: the reshaping of the rows *)

HasId(qs, qid) == \E i \in 1..Len(qs) : qs[i].id = qid

IndexOfId(qs, qid) == CHOOSE i \in 1..Len(qs) : qs[i].id = qid

ObjectiveOf(record) ==
    [id |-> record.objective_id, name |-> record.objective_name,
     traffic_sources |-> record.traffic_sources, kpis |-> record.kpis]

(* lines 37-42: if query_id not in queries: queries[query_id] = {...} *)
EnsureQuery(qs, record) ==
    IF HasId(qs, record.query_id)
    THEN qs
    ELSE Append(qs, [id |-> record.query_id, query |-> record.query_text,
                     objectives |-> <<>>])

(* lines 43-48: queries[query_id]["objectives"].append({...}) *)
AppendObjective(qs, record) ==
    [qs EXCEPT ![IndexOfId(qs, record.query_id)].objectives =
                   Append(@, ObjectiveOf(record))]

(* Mutants of the loop body. *)
AddRecordNoMerge(qs, record) ==
    Append(qs, [id |-> record.query_id, query |-> record.query_text,
                objectives |-> <<ObjectiveOf(record)>>])

AddRecordDedup(qs, record) ==
    LET qs1 == EnsureQuery(qs, record)
        q == qs1[IndexOfId(qs1, record.query_id)]
    IN IF \E j \in 1..Len(q.objectives) : q.objectives[j].id = record.objective_id
       THEN qs1
       ELSE AppendObjective(qs1, record)

AddRecordElse(qs, record) ==
    IF HasId(qs, record.query_id)
    THEN AppendObjective(qs, record)
    ELSE EnsureQuery(qs, record)

(* lines 36-48: one iteration of `for record in result` *)
AddRecord(qs, record) == AppendObjective(EnsureQuery(qs, record), record)

RECURSIVE FoldRecords(_, _)
FoldRecords(qs, result) ==
    IF result = <<>> THEN qs
    ELSE FoldRecords(AddRecord(qs, Head(result)), Tail(result))

(* lines 34-49: queries = {} ... return list(queries.values()) *)
fetch_queries_with_objectives_and_details(result) == FoldRecords(<<>>, result)

----------------------------------------------------------------------------
(* calculate_similarity and the sort *)

(* model.encode: a deterministic text -> vector function. *)
Encode(text) ==
    CASE text = "A" -> <<5, 2>>
      [] text = "B" -> <<6, 0>>
      [] text = "C" -> <<4, 5>>
      [] text = "D" -> <<10, 0>>
      [] OTHER      -> <<5, 2>>

Dot(u, v) == u[1] * v[1] + u[2] * v[2]

WithSimilarity(q, s) ==
    [id |-> q.id, query |-> q.query, objectives |-> q.objectives, similarity |-> s]

(* Mutant: every query gets similarities[0]. *)
calculate_similarity_first(qs, text) ==
    LET input_embedding == Encode(text)
    IN [i \in 1..Len(qs) |->
           WithSimilarity(qs[i], Dot(Encode(qs[1].query), input_embedding))]

calculate_similarity(qs, text) ==
    LET query_texts == [i \in 1..Len(qs) |-> qs[i].query]
        query_embeddings == [i \in 1..Len(qs) |-> Encode(query_texts[i])]
        input_embedding == Encode(text)
        similarities == [i \in 1..Len(qs) |-> Dot(query_embeddings[i], input_embedding)]
    IN [i \in 1..Len(qs) |-> WithSimilarity(qs[i], similarities[i])]

(* Insert x behind every element whose key is >= x's key. *)
RECURSIVE InsertStable(_, _)
InsertStable(s, x) ==
    IF s = <<>> THEN <<x>>
    ELSE IF Head(s).similarity >= x.similarity
         THEN <<Head(s)>> \o InsertStable(Tail(s), x)
         ELSE <<x>> \o s

(* Mutant: insert x in front of the elements with an equal key. *)
RECURSIVE InsertBeforeEqual(_, _)
InsertBeforeEqual(s, x) ==
    IF s = <<>> THEN <<x>>
    ELSE IF Head(s).similarity > x.similarity
         THEN <<Head(s)>> \o InsertBeforeEqual(Tail(s), x)
         ELSE <<x>> \o s

RECURSIVE SortFrom(_, _)
SortFrom(acc, s) ==
    IF s = <<>> THEN acc ELSE SortFrom(InsertStable(acc, Head(s)), Tail(s))

RECURSIVE SortFromUnstable(_, _)
SortFromUnstable(acc, s) ==
    IF s = <<>> THEN acc ELSE SortFromUnstable(InsertBeforeEqual(acc, Head(s)), Tail(s))

sorted_unstable(s) == SortFromUnstable(<<>>, s)

(* line 79: sorted(similar_queries, key=lambda x: x["similarity"], reverse=True) *)
sorted_by_similarity(s) == SortFrom(<<>>, s)

----------------------------------------------------------------------------
(* Rendering helpers *)

RECURSIVE Join(_)
Join(strs) ==
    IF strs = <<>> THEN ""
    ELSE IF Len(strs) = 1 THEN strs[1]
    ELSE strs[1] \o ", " \o Join(Tail(strs))

(* `', '.join(xs) if xs else 'None'` *)
JoinOrNone(strs) == IF strs # <<>> THEN Join(strs) ELSE "None"

(* st.tabs raises on an empty list and on a label that is not a str. *)
TabsRaises(labels) ==
    labels = <<>> \/ \E i \in 1..Len(labels) : ~IsStr(labels[i])

TabBody(obj) ==
    [traffic |-> "**Traffic Sources:** " \o JoinOrNone(obj.traffic_sources),
     kpis |-> "**KPIs:** " \o JoinOrNone(obj.kpis)]

TopAll(s) == s

(* line 87: similar_queries[:5] *)
Top(s) == SubSeq(s, 1, Min(TopN, Len(s)))

BelowOrAtThreshold(s) == s <= Threshold

(* line 82: similar_queries[0]["similarity"] < 0.3 *)
BelowThreshold(s) == s < Threshold

NeverEmpty(qs) == FALSE

(* line 74: not queries *)
IsEmpty(qs) == qs = <<>>

----------------------------------------------------------------------------
(* The script *)

Init ==
    /\ store \in Stores
    /\ input_text \in Inputs
    /\ driver = "open"
    /\ queries = <<>>
    /\ similar_queries = <<>>
    /\ shown = <<>>
    /\ sections = <<>>
    /\ idx = 0
    /\ calls = <<>>
    /\ pc = "input"
    /\ runs = 1

(* line 70: if input_text: *)
IfInput ==
    /\ pc = "input"
    /\ pc' = IF input_text # "" THEN "fetch" ELSE "done"
    /\ UNCHANGED <<store, input_text, driver, queries, similar_queries, shown,
                   sections, idx, calls, runs>>

(* line 73, lines 32-49: the fetch returns *)
Fetch ==
    /\ pc = "fetch"
    /\ driver = "open"
    /\ queries' = fetch_queries_with_objectives_and_details(store)
    /\ calls' = Append(calls, "fetch:ok")
    /\ pc' = "branch"
    /\ UNCHANGED <<store, input_text, driver, similar_queries, shown, sections,
                   idx, runs>>

(* line 73: the store is unreachable, the query fails, or the driver is closed *)
FetchRaises ==
    /\ pc = "fetch"
    /\ calls' = Append(calls, IF driver = "open" THEN "fetch:raise" ELSE "fetch:closed")
    /\ pc' = "except"
    /\ UNCHANGED <<store, input_text, driver, queries, similar_queries, shown,
                   sections, idx, runs>>

(* lines 74-76 *)
IfNotQueries ==
    /\ pc = "branch"
    /\ IF IsEmpty(queries)
       THEN /\ shown' = Append(shown, "nodata")
            /\ pc' = "finally"
       ELSE /\ shown' = shown
            /\ pc' = "rank"
    /\ UNCHANGED <<store, input_text, driver, queries, similar_queries, sections,
                   idx, calls, runs>>

(* lines 78-79 *)
Rank ==
    /\ pc = "rank"
    /\ queries' = calculate_similarity(queries, input_text)
    /\ similar_queries' = sorted_by_similarity(queries')
    /\ calls' = Append(calls, "calculate_similarity")
    /\ pc' = "check"
    /\ UNCHANGED <<store, input_text, driver, shown, sections, idx, runs>>

(* lines 56-57: the embedding model fails *)
RankRaises ==
    /\ pc = "rank"
    /\ calls' = Append(calls, "calculate_similarity")
    /\ pc' = "except"
    /\ UNCHANGED <<store, input_text, driver, queries, similar_queries, shown,
                   sections, idx, runs>>

(* lines 82-86 *)
CheckTop ==
    /\ pc = "check"
    /\ IF similar_queries = <<>>
       THEN /\ pc' = "except"
            /\ UNCHANGED <<shown, idx>>
       ELSE IF BelowThreshold(similar_queries[1].similarity)
       THEN /\ shown' = Append(shown, "warning")
            /\ pc' = "finally"
            /\ idx' = idx
       ELSE /\ shown' = Append(shown, "subheader")
            /\ pc' = "loop"
            /\ idx' = 1
    /\ UNCHANGED <<store, input_text, driver, queries, similar_queries, sections,
                   calls, runs>>

(* lines 87-97: one iteration of the loop over similar_queries[:5] *)
RenderQuery ==
    /\ pc = "loop"
    /\ idx <= Len(Top(similar_queries))
    /\ LET query == Top(similar_queries)[idx]
           labels == [j \in 1..Len(query.objectives) |-> query.objectives[j].name]
       IN IF TabsRaises(labels)
          THEN /\ sections' = Append(sections,
                      [header |-> query.query, labels |-> labels, tabs |-> <<>>])
               /\ pc' = "except"
               /\ idx' = idx
          ELSE /\ sections' = Append(sections,
                      [header |-> query.query, labels |-> labels,
                       tabs |-> [j \in 1..Len(query.objectives) |->
                                    TabBody(query.objectives[j])]])
               /\ pc' = pc
               /\ idx' = idx + 1
    /\ UNCHANGED <<store, input_text, driver, queries, similar_queries, shown,
                   calls, runs>>

(* line 87: the loop is exhausted *)
RenderDone ==
    /\ pc = "loop"
    /\ idx > Len(Top(similar_queries))
    /\ pc' = "finally"
    /\ UNCHANGED <<store, input_text, driver, queries, similar_queries, shown,
                   sections, idx, calls, runs>>

(* lines 98-99 *)
Except ==
    /\ pc = "except"
    /\ shown' = Append(shown, "error")
    /\ pc' = "finally"
    /\ UNCHANGED <<store, input_text, driver, queries, similar_queries, sections,
                   idx, calls, runs>>

FinallyNoClose ==
    /\ pc = "finally"
    /\ pc' = "done"
    /\ UNCHANGED <<store, input_text, driver, queries, similar_queries, shown,
                   sections, idx, calls, runs>>

(* lines 100-101 *)
Finally ==
    /\ pc = "finally"
    /\ driver' = "closed"
    /\ calls' = Append(calls, "driver.close")
    /\ pc' = "done"
    /\ UNCHANGED <<store, input_text, queries, similar_queries, shown, sections,
                   idx, runs>>

(* The user changes the input: Streamlit executes the script again from    *)
(* line 1, which builds a new driver (line 11) and an empty page.          *)
Rerun ==
    /\ pc = "done"
    /\ runs < MaxRuns
    /\ runs' = runs + 1
    /\ input_text' \in Inputs
    /\ driver' = "open"
    /\ queries' = <<>>
    /\ similar_queries' = <<>>
    /\ shown' = <<>>
    /\ sections' = <<>>
    /\ idx' = 0
    /\ calls' = <<>>
    /\ pc' = "input"
    /\ UNCHANGED store

Next ==
    \/ IfInput
    \/ Fetch
    \/ FetchRaises
    \/ IfNotQueries
    \/ Rank
    \/ RankRaises
    \/ CheckTop
    \/ RenderQuery
    \/ RenderDone
    \/ Except
    \/ Finally
    \/ Rerun

Spec == Init /\ [][Next]_vars

----------------------------------------------------------------------------
(* Properties *)

Fetched == \E i \in 1..Len(calls) : calls[i] = "fetch:ok"

Shown(m) == \E i \in 1..Len(shown) : shown[i] = m

RowsWithId(qid) == {k \in 1..Len(store) : store[k].query_id = qid}

FirstRow(qid) == CHOOSE k \in RowsWithId(qid) : \A m \in RowsWithId(qid) : k <= m

(* C1: after the fetch, the returned list holds exactly one Query record    *)
(* per distinct query_id of the rows and none for any other id, and the     *)
(* record's objectives list is as long as the number of rows with that id.  *)
C1_OneRecordPerId ==
    Fetched =>
        /\ \A k \in 1..Len(store) :
              Cardinality({i \in 1..Len(queries) : queries[i].id = store[k].query_id}) = 1
        /\ \A i \in 1..Len(queries) :
              /\ RowsWithId(queries[i].id) # {}
              /\ Len(queries[i].objectives) = Cardinality(RowsWithId(queries[i].id))

C1_Witness ==
    /\ Fetched
    /\ Len(store) = 3
    /\ store[1].query_id = store[3].query_id
    /\ store[2].query_id # store[1].query_id
    /\ Len(queries) = 2

(* C2: the step that ranks (calculate_similarity, then the sort) yields a   *)
(* list of the same length that is a permutation of the fetched Queries:    *)
(* every fetched Query occurs exactly once, with its id, text and           *)
(* objectives unchanged and only a similarity added, and the similarity of  *)
(* the Query at input position i is the score of the text at position i.    *)
C2_RankStep ==
    (pc = "rank" /\ pc' = "check") =>
        /\ Len(similar_queries') = Len(queries)
        /\ \A i \in 1..Len(queries) :
              /\ Cardinality({j \in 1..Len(similar_queries') :
                                 similar_queries'[j].id = queries[i].id}) = 1
              /\ \E j \in 1..Len(similar_queries') :
                    /\ similar_queries'[j].id = queries[i].id
                    /\ similar_queries'[j].query = queries[i].query
                    /\ similar_queries'[j].objectives = queries[i].objectives
                    /\ similar_queries'[j].similarity =
                           Dot(Encode(queries[i].query), Encode(input_text))
                    /\ DOMAIN similar_queries'[j] =
                           {"id", "query", "objectives", "similarity"}

C2_RankIsPermutation == [][C2_RankStep]_vars

C2_Witness ==
    /\ pc = "check"
    /\ Len(similar_queries) >= 3
    /\ similar_queries[1].id # queries[1].id
    /\ similar_queries[1].similarity > similar_queries[3].similarity

(* C3: the ranked list is in non-increasing order of similarity, and two    *)
(* Queries with equal similarity keep the order they had in the fetched     *)
(* list.                                                                    *)
C3_SortedStable ==
    \A i, j \in 1..Len(similar_queries) :
        i < j =>
            /\ similar_queries[i].similarity >= similar_queries[j].similarity
            /\ similar_queries[i].similarity = similar_queries[j].similarity
                  => \E a, b \in 1..Len(queries) :
                        /\ a < b
                        /\ queries[a].id = similar_queries[i].id
                        /\ queries[b].id = similar_queries[j].id

C3_Witness ==
    /\ Len(similar_queries) >= 3
    /\ similar_queries[1].similarity > similar_queries[2].similarity
    /\ similar_queries[2].similarity = similar_queries[3].similarity
    /\ similar_queries[2].query # similar_queries[3].query
    /\ similar_queries[1].id # queries[1].id

Decided == similar_queries # <<>> /\ pc # "check"

TopScore == similar_queries[1].similarity

(* C4: once the top score has been compared with 0.3 (30 hundredths), a top *)
(* score below 30 has put the warning on the page and nothing of the result *)
(* list, a top score of 30 or more has started the result list and put no   *)
(* warning; warning and result list are never both on the page.             *)
C4_ThresholdDecides ==
    /\ Decided /\ TopScore < 30 =>
          Shown("warning") /\ ~Shown("subheader") /\ sections = <<>>
    /\ Decided /\ TopScore >= 30 =>
          Shown("subheader") /\ ~Shown("warning")
    /\ ~(Shown("warning") /\ (Shown("subheader") \/ sections # <<>>))
    /\ sections # <<>> => Shown("subheader")

C4_Witness ==
    /\ pc = "done"
    /\ Decided
    /\ TopScore = 30
    /\ Shown("subheader")
    /\ sections # <<>>

(* C5: when the fetch returned an empty list, calculate_similarity is not   *)
(* invoked in that run, neither the warning nor any part of the result list *)
(* is put on the page, and the run ends with the no-data message shown.     *)
C5_EmptyFetch ==
    (Fetched /\ queries = <<>>) =>
        /\ \A i \in 1..Len(calls) : calls[i] # "calculate_similarity"
        /\ ~Shown("warning") /\ ~Shown("subheader") /\ sections = <<>>
        /\ pc \in {"branch", "finally", "done"}
        /\ pc \in {"finally", "done"} => shown = <<"nodata">>

C5_Witness ==
    /\ pc = "done"
    /\ Fetched
    /\ queries = <<>>
    /\ Shown("nodata")

(* C6: in a run in which the error message is shown, nothing of the result  *)
(* list (subheader, query sections) has been put on the page.               *)
C6_AllOrNothing ==
    Shown("error") => ~Shown("subheader") /\ sections = <<>>

C8_TopSections ==
    LET n == Len(similar_queries)
        m == IF n < 5 THEN n ELSE 5
    IN /\ Len(sections) <= m
       /\ \A i \in 1..Len(sections) :
             /\ sections[i].header = similar_queries[i].query
             /\ Len(sections[i].labels) = Len(similar_queries[i].objectives)
             /\ \A j \in 1..Len(sections[i].labels) :
                   sections[i].labels[j] = similar_queries[i].objectives[j].name
       /\ (pc \in {"finally", "done"} /\ Shown("subheader") /\ ~Shown("error")) =>
             /\ Len(sections) = m
             /\ \A i \in 1..Len(sections) :
                   Len(sections[i].tabs) = Len(similar_queries[i].objectives)

C8_Witness ==
    /\ pc = "done"
    /\ Len(similar_queries) = 6
    /\ Len(sections) = 5
    /\ ~Shown("error")

(* C9: the returned Queries are in the order in which their query_id first  *)
(* occurs in the rows, each with the text of the first row of its id, and   *)
(* its objectives are the (id, name, traffic sources, KPIs) of the rows of  *)
(* that id, in row order, one per row even when an objective id repeats.    *)
C9_OrderPreserved ==
    Fetched =>
        /\ \A i, j \in 1..Len(queries) :
              i < j => FirstRow(queries[i].id) < FirstRow(queries[j].id)
        /\ \A i \in 1..Len(queries) :
              LET ks == RowsWithId(queries[i].id)
                  objs == queries[i].objectives
              IN /\ queries[i].query = store[FirstRow(queries[i].id)].query_text
                 /\ Len(objs) = Cardinality(ks)
                 /\ \A j \in 1..Len(objs) :
                       \E k \in ks :
                          /\ Cardinality({m \in ks : m < k}) = j - 1
                          /\ objs[j].id = store[k].objective_id
                          /\ objs[j].name = store[k].objective_name
                          /\ objs[j].traffic_sources = store[k].traffic_sources
                          /\ objs[j].kpis = store[k].kpis

C9_Witness ==
    /\ Fetched
    /\ Len(store) = 3
    /\ store[1].query_id = 2
    /\ store[2].query_id = 1
    /\ store[3].query_id = 2
    /\ store[3].query_text # store[1].query_text
    /\ store[3].objective_id = store[1].objective_id
    /\ Len(queries) = 2
    /\ Len(queries[1].objectives) = 2

(* C10: every Query that was fetched, ranked or rendered has at least one   *)
(* Objective, and st.tabs is never given an empty list of labels.           *)
C10_ObjectivesNonEmpty ==
    /\ \A i \in 1..Len(queries) : queries[i].objectives # <<>>
    /\ \A i \in 1..Len(similar_queries) : similar_queries[i].objectives # <<>>
    /\ \A i \in 1..Len(sections) : sections[i].labels # <<>>

C10_Witness ==
    /\ pc = "done"
    /\ Len(sections) = 2
    /\ Len(sections[1].labels) = 1
    /\ Len(sections[2].labels) = 2

====
